---- MODULE Spec2Model ----
(***************************************************************************)
(* MCPClient (src/src/mcp_client.py): a thin HTTP client.  Every method    *)
(* builds one request from its keyword arguments, sends it through the     *)
(* shared requests.Session, validates the status with raise_for_status and *)
(* decodes the body.                                                       *)
(*                                                                         *)
(* Python values are opaque to the client, so they are modelled by the     *)
(* text of their repr: None is "None", the empty dict is "{}".  A dict the *)
(* client builds (payload, params, kwargs, a decoded JSON document) is a   *)
(* function from its keys to such values; a key that is not in the dict is *)
(* not in the function's DOMAIN.                                           *)
(***************************************************************************)
EXTENDS Naturals, Sequences, FiniteSets, TLC

VARIABLES
    base_url,   \* self.base_url
    session,    \* identity of self.session
    calls,      \* number of MCPClient methods the caller has invoked
    sent,       \* number of requests issued through self.session
    lastCall,   \* what the method call just made did and how it ended
    handles     \* streamed responses whose connection is still checked out

vars == <<base_url, session, calls, sent, lastCall, handles>>

\* Number of method calls explored in one behaviour.
MaxCalls == 2

None == "None"
EmptyDict == [k \in {} |-> None]

Restrict(f, S) == [k \in (S \cap DOMAIN f) |-> f[k]]

\* The keyword arguments of the calls explored: the caller passes the
\* required keywords and any subset of the others, with values from fulls
\* (a set of dicts that give every keyword a value).
Keywords(required, fulls) ==
    UNION {{Restrict(f, required \cup S) : S \in SUBSET (DOMAIN f)} :
               f \in fulls}

(***************************************************************************)
(* Python call binding: a keyword that names a parameter binds it, an      *)
(* omitted parameter takes its default, and the keywords that name no      *)
(* parameter are collected in **kwargs.                                    *)
(***************************************************************************)
Arg(kw, name, default) == IF name \in DOMAIN kw THEN kw[name] ELSE default

Extras(kw, params) == Restrict(kw, DOMAIN kw \ params)

(***************************************************************************)
(* The service's answers.  A non-streamed response carries a body text; a  *)
(* streamed one carries the lines the service sends.                       *)
(***************************************************************************)
Statuses == {200, 204, 304, 400, 500, 599}

SchemaText == "{\"input_schema\": {\"type\": \"object\"}, \"output_schema\": {}}"
NoSchemaText == "{\"run_id\": \"1234\"}"
Texts == {SchemaText, NoSchemaText, ""}

StreamBodies == {<<>>, <<"data: Hello">>, <<"data: world!", "", "data: Hello">>}

\* 204 and 304 responses have no body; the bodies of the other statuses vary.
NoBodyStatuses == {204, 304}

Responses ==
    {r \in [status : Statuses, text : Texts, lines : {<<>>}] :
        r.status \in NoBodyStatuses => r.text = ""}

StreamResponses ==
    {r \in [status : Statuses, text : {""}, lines : StreamBodies] :
        r.status \in NoBodyStatuses => r.lines = <<>>}

BaseUrls == {"http://localhost:2024", "http://localhost:2024/"}

(***************************************************************************)
(* requests, as the client uses it.                                        *)
(***************************************************************************)
\* response.raise_for_status(): TRUE when it raises requests.HTTPError,
\* which it does for the client-error and server-error status codes.
raise_for_status(response) ==
    400 <= response.status /\ response.status < 600

\* response.json(): the decoded document, for a body that is JSON.
IsJson(text) == text \in {SchemaText, NoSchemaText}

json(text) ==
    CASE text = SchemaText ->
            [input_schema |-> "{'type': 'object'}", output_schema |-> "{}"]
      [] text = NoSchemaText -> [run_id |-> "1234"]
      [] OTHER -> EmptyDict

\* One call of self.session.get / post / put: given holds the keyword
\* arguments passed along with the url.
Request(method, url, given, body, params, stream) ==
    [method |-> method, url |-> url, given |-> given, json |-> body,
     params |-> params, stream |-> stream]

\* Variant of Update: the keys payload already has keep their values.
UpdateKeepNamed(payload, other) == payload @@ other

\* dict.update: the keys of other replace those of payload.
Update(payload, other) == other @@ payload

\* How a call ends.  ret names what is returned: a decoded document (doc),
\* a value taken out of one (value), the response object, or None.
ReturnedDoc(doc) ==
    [kind |-> "return", ret |-> "doc", doc |-> doc, value |-> None,
     status |-> 0, body |-> ""]

ReturnedValue(value) ==
    [kind |-> "return", ret |-> "value", doc |-> EmptyDict, value |-> value,
     status |-> 0, body |-> ""]

ReturnedNone ==
    [kind |-> "return", ret |-> "None", doc |-> EmptyDict, value |-> None,
     status |-> 0, body |-> ""]

ReturnedResponse(response) ==
    [kind |-> "return", ret |-> "response", doc |-> EmptyDict, value |-> None,
     status |-> response.status, body |-> ""]

HTTPError(response) ==
    [kind |-> "HTTPError", ret |-> "nothing", doc |-> EmptyDict, value |-> None,
     status |-> response.status, body |-> response.text]

JSONDecodeError ==
    [kind |-> "JSONDecodeError", ret |-> "nothing", doc |-> EmptyDict,
     value |-> None, status |-> 0, body |-> ""]

\* A streamed response the call leaves behind: opened by the request, read
\* lines of the body consumed by the call itself, closed if the call closed it.
NoHandle == [opened |-> FALSE, read |-> 0, closed |-> FALSE]
StreamHandle == [opened |-> TRUE, read |-> 0, closed |-> FALSE]

\* The record of one method call: the requests it sent in order, the
\* response it got, how it ended, the steps it took in order, what it wrote
\* to standard output, and the streamed response it opened.
Call(op, kw, requests, response, outcome, events, stdout, handle) ==
    [op |-> op, kw |-> kw, requests |-> requests, response |-> response,
     outcome |-> outcome, events |-> events, stdout |-> stdout,
     handle |-> handle]

\* response.raise_for_status(); return response.json()
ReturnJson(op, kw, request, response) ==
    IF raise_for_status(response)
    THEN Call(op, kw, <<request>>, response, HTTPError(response),
              <<"request", "raise_for_status", "raise">>, <<>>, NoHandle)
    ELSE IF IsJson(response.text)
    THEN Call(op, kw, <<request>>, response, ReturnedDoc(json(response.text)),
              <<"request", "raise_for_status", "json", "return">>, <<>>, NoHandle)
    ELSE Call(op, kw, <<request>>, response, JSONDecodeError,
              <<"request", "raise_for_status", "json", "raise">>, <<>>, NoHandle)

\* response.raise_for_status(), and the method ends without a return value
ReturnNothing(op, kw, request, response) ==
    IF raise_for_status(response)
    THEN Call(op, kw, <<request>>, response, HTTPError(response),
              <<"request", "raise_for_status", "raise">>, <<>>, NoHandle)
    ELSE Call(op, kw, <<request>>, response, ReturnedNone,
              <<"request", "raise_for_status", "return">>, <<>>, NoHandle)

(***************************************************************************)
(* The methods of MCPClient.  kw is the caller's keyword arguments and     *)
(* response the service's answer to the request the method sends.          *)
(***************************************************************************)
run_stateful(kw, response) ==
    LET kwargs == Extras(kw, {"assistant_id", "input_data", "config",
                              "checkpoint", "metadata"})
        payload == Update([assistant_id |-> kw["assistant_id"],
                           input |-> Arg(kw, "input_data", None),
                           config |-> Arg(kw, "config", None),
                           checkpoint |-> Arg(kw, "checkpoint", None),
                           metadata |-> Arg(kw, "metadata", None)], kwargs)
        url == base_url \o "/threads/runs/wait"
    IN  ReturnJson("run_stateful", kw,
                   Request("POST", url, {"json"}, payload, EmptyDict, FALSE),
                   response)

get_assistant_details(kw, response) ==
    LET url == base_url \o "/assistants/" \o kw["assistant_id"] \o "/schemas"
    IN  ReturnJson("get_assistant_details", kw,
                   Request("GET", url, {}, EmptyDict, EmptyDict, FALSE),
                   response)

\* Variant of get_assistant_schema: details.get("input_schema"), with no
\* default.
get_assistant_schema_no_default(kw, response) ==
    LET details == get_assistant_details(kw, response)
    IN  IF details.outcome.kind = "return"
        THEN [details EXCEPT
                !.op = "get_assistant_schema",
                !.outcome = ReturnedValue(Arg(details.outcome.doc,
                                              "input_schema", None)),
                !.events = SubSeq(details.events, 1, Len(details.events) - 1)
                             \o <<"get", "return">>]
        ELSE [details EXCEPT !.op = "get_assistant_schema"]

\* Variant of get_assistant_schema: a failed fetch of the details is tried
\* once more.
get_assistant_schema_retry(kw, response) ==
    LET details == get_assistant_details(kw, response)
    IN  IF details.outcome.kind = "return"
        THEN [details EXCEPT
                !.op = "get_assistant_schema",
                !.outcome = ReturnedValue(Arg(details.outcome.doc,
                                              "input_schema", "{}")),
                !.events = SubSeq(details.events, 1, Len(details.events) - 1)
                             \o <<"get", "return">>]
        ELSE [details EXCEPT !.op = "get_assistant_schema",
                             !.requests = details.requests \o details.requests,
                             !.events = details.events \o details.events]

get_assistant_schema(kw, response) ==
    LET details == get_assistant_details(kw, response)
    IN  IF details.outcome.kind = "return"
        THEN [details EXCEPT
                !.op = "get_assistant_schema",
                !.outcome = ReturnedValue(Arg(details.outcome.doc,
                                              "input_schema", "{}")),
                !.events = SubSeq(details.events, 1, Len(details.events) - 1)
                             \o <<"get", "return">>]
        ELSE [details EXCEPT !.op = "get_assistant_schema"]

\* Variant of run_stateless: the failure is signalled without the print.
run_stateless_silent(kw, response) ==
    LET kwargs == Extras(kw, {"assistant_id", "input_data", "config",
                              "metadata"})
        payload == Update([assistant_id |-> kw["assistant_id"],
                           input |-> Arg(kw, "input_data", None),
                           config |-> Arg(kw, "config", None),
                           metadata |-> Arg(kw, "metadata", None)], kwargs)
        url == base_url \o "/runs/wait"
    IN  ReturnJson("run_stateless", kw,
                   Request("POST", url, {"json"}, payload, EmptyDict, FALSE),
                   response)

run_stateless(kw, response) ==
    LET kwargs == Extras(kw, {"assistant_id", "input_data", "config",
                              "metadata"})
        payload == Update([assistant_id |-> kw["assistant_id"],
                           input |-> Arg(kw, "input_data", None),
                           config |-> Arg(kw, "config", None),
                           metadata |-> Arg(kw, "metadata", None)], kwargs)
        url == base_url \o "/runs/wait"
        request == Request("POST", url, {"json"}, payload, EmptyDict, FALSE)
    IN  IF raise_for_status(response)
        THEN Call("run_stateless", kw, <<request>>, response,
                  HTTPError(response),
                  <<"request", "raise_for_status", "print", "raise">>,
                  <<[label |-> "HTTP Error:", status |-> response.status,
                     text |-> response.text]>>,
                  NoHandle)
        ELSE ReturnJson("run_stateless", kw, request, response)

\* Variant of stream_run: the request is made without stream=True, so the
\* whole body is read before the method returns.
stream_run_buffered(kw, response) ==
    LET kwargs == Extras(kw, {"assistant_id", "input_data", "config",
                              "metadata"})
        payload == Update([assistant_id |-> kw["assistant_id"],
                           input |-> Arg(kw, "input_data", None),
                           config |-> Arg(kw, "config", None),
                           metadata |-> Arg(kw, "metadata", None)], kwargs)
        url == base_url \o "/runs/stream"
        request == Request("POST", url, {"json"}, payload, EmptyDict, FALSE)
        buffered == [opened |-> TRUE, read |-> Len(response.lines),
                     closed |-> TRUE]
    IN  IF raise_for_status(response)
        THEN Call("stream_run", kw, <<request>>, response, HTTPError(response),
                  <<"request", "read", "raise_for_status", "raise">>, <<>>,
                  buffered)
        ELSE Call("stream_run", kw, <<request>>, response,
                  ReturnedResponse(response),
                  <<"request", "read", "raise_for_status", "return">>, <<>>,
                  buffered)

stream_run(kw, response) ==
    LET kwargs == Extras(kw, {"assistant_id", "input_data", "config",
                              "metadata"})
        payload == Update([assistant_id |-> kw["assistant_id"],
                           input |-> Arg(kw, "input_data", None),
                           config |-> Arg(kw, "config", None),
                           metadata |-> Arg(kw, "metadata", None)], kwargs)
        url == base_url \o "/runs/stream"
        request == Request("POST", url, {"json", "stream"}, payload,
                           EmptyDict, TRUE)
    IN  IF raise_for_status(response)
        THEN Call("stream_run", kw, <<request>>, response, HTTPError(response),
                  <<"request", "raise_for_status", "raise">>, <<>>,
                  StreamHandle)
        ELSE Call("stream_run", kw, <<request>>, response,
                  ReturnedResponse(response),
                  <<"request", "raise_for_status", "return">>, <<>>,
                  StreamHandle)

\* Variant of get_run_status: a trailing slash of the base URL is dropped
\* before the path is appended.
get_run_status_normalised(kw, response) ==
    LET base == IF base_url = "http://localhost:2024/"
                THEN "http://localhost:2024" ELSE base_url
        url == base \o "/threads/" \o kw["thread_id"] \o "/runs/"
                    \o kw["run_id"]
    IN  ReturnJson("get_run_status", kw,
                   Request("GET", url, {}, EmptyDict, EmptyDict, FALSE),
                   response)

get_run_status(kw, response) ==
    LET url == base_url \o "/threads/" \o kw["thread_id"] \o "/runs/"
                        \o kw["run_id"]
    IN  ReturnJson("get_run_status", kw,
                   Request("GET", url, {}, EmptyDict, EmptyDict, FALSE),
                   response)

cancel_run(kw, response) ==
    LET kwargs == Extras(kw, {"thread_id", "run_id"})
        url == base_url \o "/threads/" \o kw["thread_id"] \o "/runs/"
                        \o kw["run_id"] \o "/cancel"
    IN  ReturnNothing("cancel_run", kw,
                      Request("POST", url, {"json"}, kwargs, EmptyDict, FALSE),
                      response)

get_thread_state(kw, response) ==
    LET url == base_url \o "/threads/" \o kw["thread_id"] \o "/state"
    IN  ReturnJson("get_thread_state", kw,
                   Request("GET", url, {}, EmptyDict, EmptyDict, FALSE),
                   response)

\* Variant of update_thread_state: checkpoint is left out of the body when
\* it is None.
update_thread_state_sparse(kw, response) ==
    LET payload == IF Arg(kw, "checkpoint", None) = None
                   THEN [values |-> kw["values"]]
                   ELSE [values |-> kw["values"],
                         checkpoint |-> kw["checkpoint"]]
        url == base_url \o "/threads/" \o kw["thread_id"] \o "/state"
    IN  ReturnJson("update_thread_state", kw,
                   Request("POST", url, {"json"}, payload, EmptyDict, FALSE),
                   response)

update_thread_state(kw, response) ==
    LET payload == [values |-> kw["values"],
                    checkpoint |-> Arg(kw, "checkpoint", None)]
        url == base_url \o "/threads/" \o kw["thread_id"] \o "/state"
    IN  ReturnJson("update_thread_state", kw,
                   Request("POST", url, {"json"}, payload, EmptyDict, FALSE),
                   response)

\* Variant of put_item: the status of the response is not validated.
put_item_unchecked(kw, response) ==
    LET payload == [namespace |-> kw["namespace"], key |-> kw["key"],
                    value |-> kw["value"]]
        url == base_url \o "/store/items"
    IN  Call("put_item", kw,
             <<Request("PUT", url, {"json"}, payload, EmptyDict, FALSE)>>,
             response, ReturnedNone, <<"request", "return">>, <<>>, NoHandle)

put_item(kw, response) ==
    LET payload == [namespace |-> kw["namespace"], key |-> kw["key"],
                    value |-> kw["value"]]
        url == base_url \o "/store/items"
    IN  ReturnNothing("put_item", kw,
                      Request("PUT", url, {"json"}, payload, EmptyDict, FALSE),
                      response)

get_item(kw, response) ==
    LET url == base_url \o "/store/items"
        params == [namespace |-> Arg(kw, "namespace", None),
                   key |-> Arg(kw, "key", None)]
    IN  ReturnJson("get_item", kw,
                   Request("GET", url, {"params"}, EmptyDict, params, FALSE),
                   response)

search_items(kw, response) ==
    LET payload == [namespace_prefix |-> Arg(kw, "namespace_prefix", None),
                    filter |-> Arg(kw, "filter", None),
                    limit |-> Arg(kw, "limit", "10"),
                    offset |-> Arg(kw, "offset", "0")]
        url == base_url \o "/store/items/search"
    IN  ReturnJson("search_items", kw,
                   Request("POST", url, {"json"}, payload, EmptyDict, FALSE),
                   response)

\* Variant of SetIfNotNone: the test is the truth value of value, which an
\* empty dict or an empty string fails.
SetIfTruthy(payload, name, value) ==
    IF value \notin {None, "{}", ""} THEN (name :> value) @@ payload ELSE payload

\* payload[name] = value when value is not None
SetIfNotNone(payload, name, value) ==
    IF value # None THEN (name :> value) @@ payload ELSE payload

create_assistant(kw, response) ==
    LET p0 == [graph_id |-> kw["graph_id"],
               if_exists |-> Arg(kw, "if_exists", "raise")]
        p1 == SetIfNotNone(p0, "assistant_id", Arg(kw, "assistant_id", None))
        p2 == SetIfNotNone(p1, "config", Arg(kw, "config", None))
        p3 == SetIfNotNone(p2, "metadata", Arg(kw, "metadata", None))
        payload == SetIfNotNone(p3, "name", Arg(kw, "name", None))
        url == base_url \o "/assistants"
    IN  ReturnJson("create_assistant", kw,
                   Request("POST", url, {"json"}, payload, EmptyDict, FALSE),
                   response)

(***************************************************************************)
(* The calls explored.                                                     *)
(***************************************************************************)
RunKeywords ==
    Keywords({"assistant_id"},
             [assistant_id : {"my_assistant"}, input_data : {"x"},
              config : {"{'recursion_limit': 10}"}, metadata : {"{'m': 1}"},
              input : {"y"}, stream_mode : {"values"}])

RunStatefulKeywords ==
    Keywords({"assistant_id"},
             [assistant_id : {"my_assistant"}, input_data : {"x"},
              config : {"{'recursion_limit': 10}"},
              checkpoint : {"{'checkpoint_id': 'c'}"},
              metadata : {"{'m': 1}"},
              input : {"y"}, stream_mode : {"values"}])

AssistantKeywords == [assistant_id : {"my_assistant", "other"}]

RunIdKeywords == [thread_id : {"1234"}, run_id : {"5678"}]

CancelKeywords ==
    Keywords({"thread_id", "run_id"},
             [thread_id : {"1234"}, run_id : {"5678"}, wait : {"True"}])

ThreadKeywords == [thread_id : {"1234"}]

UpdateKeywords ==
    Keywords({"thread_id", "values"},
             [thread_id : {"1234"}, values : {"{'key': 'new_value'}"},
              checkpoint : {"{'checkpoint_id': 'c'}"}])

PutKeywords ==
    [namespace : {"['my_namespace']"}, key : {"my_key"},
     value : {"{'data': 'value'}"}]

GetItemKeywords ==
    Keywords({}, [namespace : {"['my_namespace']"}, key : {"my_key"}])

SearchKeywords ==
    Keywords({}, [namespace_prefix : {"['my_namespace']"},
                  filter : {"{'data': 'value'}"}, limit : {"5"},
                  offset : {"3"}])

CreateKeywords ==
    Keywords({"graph_id"},
             [graph_id : {"g"}, assistant_id : {"a"},
              config : {"{}", "{'k': 1}"}, metadata : {"{'m': 1}"},
              name : {None, ""}, if_exists : {"do_nothing"}])

(***************************************************************************)
(* State machine.                                                          *)
(***************************************************************************)
\* No call is in progress and the caller holds no outcome.
Idle ==
    Call("idle", EmptyDict, <<>>, [status |-> 0, text |-> "", lines |-> <<>>],
         ReturnedNone, <<>>, <<>>, NoHandle)

\* MCPClient(base_url)
Init ==
    /\ base_url \in BaseUrls
    /\ session = 1
    /\ calls = 0
    /\ sent = 0
    /\ lastCall = Idle
    /\ handles = {}

\* The caller invokes a method, which runs to its end.  A streamed response
\* that the method opened and did not close keeps its connection: h.ok says
\* whether the method returned it to the caller.  The calls are synchronous: the caller
\* makes the next one after it has taken the outcome of this one.
CanInvoke == lastCall = Idle /\ calls < MaxCalls

Invoke(call) ==
    /\ calls' = calls + 1
    /\ sent' = sent + Len(call.requests)
    /\ lastCall' = call
    /\ handles' =
         IF call.handle.opened /\ ~call.handle.closed
         THEN handles \cup {[call |-> calls + 1,
                             ok |-> call.outcome.kind = "return",
                             lines |-> call.response.lines,
                             pos |-> call.handle.read,
                             yielded |-> <<>>]}
         ELSE handles
    /\ UNCHANGED <<base_url, session>>

RunStateful ==
    /\ CanInvoke
    /\ \E kw \in RunStatefulKeywords, r \in Responses : Invoke(run_stateful(kw, r))

GetAssistantSchema ==
    /\ CanInvoke
    /\ \E kw \in AssistantKeywords, r \in Responses :
           Invoke(get_assistant_schema(kw, r))

RunStateless ==
    /\ CanInvoke
    /\ \E kw \in RunKeywords, r \in Responses : Invoke(run_stateless(kw, r))

StreamRun ==
    /\ CanInvoke
    /\ \E kw \in RunKeywords, r \in StreamResponses : Invoke(stream_run(kw, r))

GetRunStatus ==
    /\ CanInvoke
    /\ \E kw \in RunIdKeywords, r \in Responses : Invoke(get_run_status(kw, r))

CancelRun ==
    /\ CanInvoke
    /\ \E kw \in CancelKeywords, r \in Responses : Invoke(cancel_run(kw, r))

GetAssistantDetails ==
    /\ CanInvoke
    /\ \E kw \in AssistantKeywords, r \in Responses :
           Invoke(get_assistant_details(kw, r))

GetThreadState ==
    /\ CanInvoke
    /\ \E kw \in ThreadKeywords, r \in Responses : Invoke(get_thread_state(kw, r))

UpdateThreadState ==
    /\ CanInvoke
    /\ \E kw \in UpdateKeywords, r \in Responses :
           Invoke(update_thread_state(kw, r))

PutItem ==
    /\ CanInvoke
    /\ \E kw \in PutKeywords, r \in Responses : Invoke(put_item(kw, r))

GetItem ==
    /\ CanInvoke
    /\ \E kw \in GetItemKeywords, r \in Responses : Invoke(get_item(kw, r))

SearchItems ==
    /\ CanInvoke
    /\ \E kw \in SearchKeywords, r \in Responses : Invoke(search_items(kw, r))

CreateAssistant ==
    /\ CanInvoke
    /\ \E kw \in CreateKeywords, r \in Responses : Invoke(create_assistant(kw, r))

\* The caller takes the next line from a response stream_run returned
\* (response.iter_lines()).  Reading past the last line meets the end of the
\* body, which gives the connection back to the session.
IterLines ==
    \E h \in handles :
        /\ h.ok
        /\ handles' =
             IF h.pos < Len(h.lines)
             THEN (handles \ {h}) \cup
                    {[h EXCEPT !.pos = h.pos + 1,
                               !.yielded = Append(h.yielded, h.lines[h.pos + 1])]}
             ELSE handles \ {h}
        /\ UNCHANGED <<base_url, session, calls, sent, lastCall>>

\* The caller closes a streamed response (response.close(), or
\* error.response.close() after a failure).
CloseResponse ==
    \E h \in handles :
        /\ handles' = handles \ {h}
        /\ UNCHANGED <<base_url, session, calls, sent, lastCall>>

\* The caller has taken the outcome of the call (the value returned or the
\* exception raised) and goes on.
CallerContinues ==
    /\ lastCall # Idle
    /\ lastCall' = Idle
    /\ UNCHANGED <<base_url, session, calls, sent, handles>>

Next ==
    \/ RunStateful
    \/ GetAssistantSchema
    \/ RunStateless
    \/ StreamRun
    \/ GetRunStatus
    \/ CancelRun
    \/ GetAssistantDetails
    \/ GetThreadState
    \/ UpdateThreadState
    \/ PutItem
    \/ GetItem
    \/ SearchItems
    \/ CreateAssistant
    \/ IterLines
    \/ CloseResponse
    \/ CallerContinues

Spec == Init /\ [][Next]_vars

(***************************************************************************)
(* Vocabulary of the properties.                                           *)
(***************************************************************************)
Operations ==
    {"run_stateful", "run_stateless", "stream_run", "get_run_status",
     "cancel_run", "get_assistant_details", "get_assistant_schema",
     "get_thread_state", "update_thread_state", "put_item", "get_item",
     "search_items", "create_assistant"}

RunOperations == {"run_stateful", "run_stateless", "stream_run"}

Called == lastCall.op \in Operations

\* The request of the call just made.
Sent == lastCall.requests[1]

ErrorStatus(status) == status \in 400..599

SuccessStatus(status) == status \in 200..299

(***************************************************************************)
(* C1                                                                      *)
(***************************************************************************)
\* C1 as stated: for every operation, a response whose status code is
\* outside 200..299 ends the call in an HTTP failure, and no value is
\* returned.
C1_NonSuccessStatusFails ==
    (Called /\ ~SuccessStatus(lastCall.response.status))
        => /\ lastCall.outcome.kind = "HTTPError"
           /\ lastCall.outcome.ret = "nothing"

\* C1 amended: for every operation, a response whose status code is in
\* 400..599 ends the call in an HTTP failure that carries the status code and
\* the body, and no value is returned; a response with any other status code,
\* 2xx or not, signals no HTTP failure.
C1_ErrorStatusFails ==
    Called =>
        IF ErrorStatus(lastCall.response.status)
        THEN /\ lastCall.outcome.kind = "HTTPError"
             /\ lastCall.outcome.ret = "nothing"
             /\ lastCall.outcome.status = lastCall.response.status
             /\ lastCall.outcome.body = lastCall.response.text
        ELSE lastCall.outcome.kind # "HTTPError"

C1_Witness ==
    /\ lastCall.op = "put_item"
    /\ lastCall.response.status = 500
    /\ lastCall.outcome.kind = "HTTPError"

(***************************************************************************)
(* C2                                                                      *)
(***************************************************************************)
\* The optional named parameters of the operations C2 is about, and the key
\* each one has in the request.
OptionalParams(op) ==
    CASE op = "run_stateful" -> {"input_data", "config", "checkpoint", "metadata"}
      [] op \in {"run_stateless", "stream_run"} ->
            {"input_data", "config", "metadata"}
      [] op = "update_thread_state" -> {"checkpoint"}
      [] op = "search_items" -> {"namespace_prefix", "filter", "limit", "offset"}
      [] op = "get_item" -> {"namespace", "key"}
      [] OTHER -> {}

BodyKey(name) == IF name = "input_data" THEN "input" ELSE name

Omitted(name) ==
    name \in OptionalParams(lastCall.op) /\ name \notin DOMAIN lastCall.kw

\* C2 as stated: in every operation other than create_assistant, each
\* optional parameter the caller omits is a key of the JSON body whose value
\* is null.
C2_OmittedSentAsNull ==
    (Called /\ lastCall.op # "create_assistant") =>
        \A name \in OptionalParams(lastCall.op) :
            Omitted(name) =>
                /\ "json" \in Sent.given
                /\ BodyKey(name) \in DOMAIN Sent.json
                /\ Sent.json[BodyKey(name)] = None

\* C2 amended: in run_stateful, run_stateless, stream_run,
\* update_thread_state and search_items each omitted optional parameter is
\* still a key of the JSON body.  Its value is null, except that limit and
\* offset of search_items are sent as their defaults 10 and 0, and that input
\* carries the value of an extra parameter named input when the caller
\* passed one.  get_item sends no JSON body: it passes namespace and key as
\* query parameters, an omitted one with the value None.  With no extra
\* parameters the body of a run operation holds exactly the keys of its
\* named fields.
C2_OmittedStillSent ==
    Called =>
        /\ lastCall.op \in RunOperations \cup {"update_thread_state", "search_items"}
            => /\ "json" \in Sent.given
               /\ \A name \in OptionalParams(lastCall.op) :
                    Omitted(name) =>
                        /\ BodyKey(name) \in DOMAIN Sent.json
                        /\ Sent.json[BodyKey(name)] =
                             CASE name = "limit" -> "10"
                               [] name = "offset" -> "0"
                               [] name = "input_data" /\ "input" \in DOMAIN lastCall.kw
                                    -> lastCall.kw["input"]
                               [] OTHER -> None
        /\ lastCall.op \in RunOperations
            => DOMAIN Sent.json =
                 {"assistant_id"}
                    \cup {BodyKey(n) : n \in OptionalParams(lastCall.op)}
                    \cup (DOMAIN lastCall.kw \ (OptionalParams(lastCall.op)
                                                  \cup {"assistant_id"}))
        /\ lastCall.op = "get_item"
            => /\ Sent.given = {"params"}
               /\ DOMAIN Sent.params = {"namespace", "key"}
               /\ \A name \in {"namespace", "key"} :
                    Omitted(name) => Sent.params[name] = None

C2_Witness ==
    /\ lastCall.op = "run_stateful"
    /\ lastCall.kw = [assistant_id |-> "my_assistant", input_data |-> "x"]
    /\ Sent.json = [assistant_id |-> "my_assistant", input |-> "x",
                    config |-> None, checkpoint |-> None, metadata |-> None]

(***************************************************************************)
(* C3                                                                      *)
(***************************************************************************)
CreateOptional == {"assistant_id", "config", "metadata", "name"}

\* C3: the body of create_assistant always holds graph_id and if_exists
\* ("raise" when not supplied); each of assistant_id, config, metadata and
\* name is a key of the body exactly when the caller supplied a value for it,
\* and then with that value; no key of the body is null.
C3_CreateAssistantBody ==
    lastCall.op = "create_assistant" =>
        /\ "json" \in Sent.given
        /\ DOMAIN Sent.json \subseteq {"graph_id", "if_exists"} \cup CreateOptional
        /\ Sent.json["graph_id"] = lastCall.kw["graph_id"]
        /\ Sent.json["if_exists"] =
             (IF "if_exists" \in DOMAIN lastCall.kw
              THEN lastCall.kw["if_exists"] ELSE "raise")
        /\ \A name \in CreateOptional :
             LET supplied == name \in DOMAIN lastCall.kw /\ lastCall.kw[name] # None
             IN  /\ name \in DOMAIN Sent.json <=> supplied
                 /\ supplied => Sent.json[name] = lastCall.kw[name]

C3_Witness ==
    /\ lastCall.op = "create_assistant"
    /\ lastCall.kw = [graph_id |-> "g", config |-> "{}", name |-> None]
    /\ Sent.json = [graph_id |-> "g", if_exists |-> "raise", config |-> "{}"]

(***************************************************************************)
(* C4                                                                      *)
(***************************************************************************)
\* The extra parameters of a run operation: the keywords that name none of
\* its parameters.
ExtraKeys == DOMAIN lastCall.kw \ (OptionalParams(lastCall.op) \cup {"assistant_id"})

\* C4 as stated: when an extra parameter has the key of a named field (an
\* extra named input next to input_data), the body carries the named field's
\* value under that key.
C4_NamedFieldWins ==
    (lastCall.op \in RunOperations /\ "input" \in ExtraKeys)
        => Sent.json["input"] =
             (IF "input_data" \in DOMAIN lastCall.kw
              THEN lastCall.kw["input_data"] ELSE None)

\* C4 amended: the extra parameters are merged into the body after the named
\* fields: every extra parameter is in the body with its own value, also
\* when its key is that of a named field, whose value it replaces; a named
\* field whose key no extra parameter has keeps its value.
C4_ExtraWins ==
    lastCall.op \in RunOperations =>
        /\ \A k \in ExtraKeys :
             k \in DOMAIN Sent.json /\ Sent.json[k] = lastCall.kw[k]
        /\ \A name \in OptionalParams(lastCall.op) \cup {"assistant_id"} :
             BodyKey(name) \notin ExtraKeys =>
                Sent.json[BodyKey(name)] =
                    (IF name \in DOMAIN lastCall.kw
                     THEN lastCall.kw[name] ELSE None)

C4_Witness ==
    /\ lastCall.op = "run_stateful"
    /\ lastCall.kw = [assistant_id |-> "my_assistant", input_data |-> "x",
                      input |-> "y"]
    /\ Sent.json["input"] = "y"

(***************************************************************************)
(* C5                                                                      *)
(***************************************************************************)
Count(seq, x) == Cardinality({i \in 1..Len(seq) : seq[i] = x})

\* C5: the number of requests sent equals the number of calls made: every
\* call, also of get_assistant_schema, sends exactly one request, and a call
\* that fails sent that one request and no other before the failure.
C5_OneRequestPerCall ==
    /\ sent = calls
    /\ Called =>
         /\ Len(lastCall.requests) = 1
         /\ Count(lastCall.events, "request") = 1
         /\ lastCall.events[1] = "request"

C5_Witness ==
    /\ calls = 2
    /\ sent = 2
    /\ lastCall.op = "get_assistant_schema"
    /\ lastCall.outcome.kind = "HTTPError"

(***************************************************************************)
(* C6                                                                      *)
(***************************************************************************)
\* C6: after stream_run has signalled an HTTP failure, no streamed response
\* opened by that call is still open: every open one was returned to its
\* caller.
C6_FailedStreamReleased ==
    \A h \in handles : h.ok

(***************************************************************************)
(* C7                                                                      *)
(***************************************************************************)
\* C7: when run_stateless gets an HTTP error, it first writes a diagnostic
\* record with the status code and the body, and then signals the failure
\* any other operation signals for that response; when it gets a success,
\* it writes nothing and returns the decoded JSON body.
C7_RunStatelessDiagnostic ==
    lastCall.op = "run_stateless" =>
        /\ ErrorStatus(lastCall.response.status) =>
             /\ Len(lastCall.stdout) = 1
             /\ lastCall.stdout[1].status = lastCall.response.status
             /\ lastCall.stdout[1].text = lastCall.response.text
             /\ \E i, j \in 1..Len(lastCall.events) :
                    /\ i < j
                    /\ lastCall.events[i] = "print"
                    /\ lastCall.events[j] = "raise"
             /\ Count(lastCall.events, "print") = 1
             /\ lastCall.outcome =
                  get_thread_state([thread_id |-> "1234"],
                                   lastCall.response).outcome
             /\ lastCall.outcome.kind = "HTTPError"
        /\ SuccessStatus(lastCall.response.status) =>
             /\ lastCall.stdout = <<>>
             /\ IsJson(lastCall.response.text) =>
                    /\ lastCall.outcome.kind = "return"
                    /\ lastCall.outcome.doc = json(lastCall.response.text)

C7_Witness ==
    /\ lastCall.op = "run_stateless"
    /\ lastCall.response.status = 400
    /\ lastCall.response.text = NoSchemaText
    /\ lastCall.stdout = <<[label |-> "HTTP Error:", status |-> 400,
                            text |-> NoSchemaText]>>
    /\ lastCall.outcome.kind = "HTTPError"

(***************************************************************************)
(* C8                                                                      *)
(***************************************************************************)
\* C8: stream_run validates the status and returns before any of the body
\* has been read: the call consumes no line of the body.  The lines the
\* caller then takes from a returned response are the lines of the body in
\* the order the service sent them, each one once.
C8_StreamNotReadByCall ==
    /\ lastCall.op = "stream_run" =>
         /\ Sent.stream
         /\ lastCall.handle.read = 0
         /\ lastCall.events \in {<<"request", "raise_for_status", "return">>,
                                 <<"request", "raise_for_status", "raise">>}
         /\ SuccessStatus(lastCall.response.status) =>
               /\ lastCall.outcome.ret = "response"
               /\ \A h \in handles :
                    h.call = calls =>
                        h.ok /\ h.lines = lastCall.response.lines
    /\ \A h \in handles :
         h.ok => /\ h.pos <= Len(h.lines)
                 /\ h.yielded = SubSeq(h.lines, 1, h.pos)

C8_Witness ==
    \E h \in handles :
        /\ h.ok
        /\ Len(h.lines) = 3
        /\ h.pos = 3
        /\ h.yielded = h.lines

(***************************************************************************)
(* C9                                                                      *)
(***************************************************************************)
\* C9: get_assistant_schema returns the input_schema field of the document
\* get_assistant_details returns for the same id, or an empty mapping when
\* that document has no such field; when get_assistant_details fails,
\* get_assistant_schema fails in the same way and returns nothing.
C9_SchemaOfDetails ==
    lastCall.op = "get_assistant_schema" =>
        LET details == get_assistant_details(lastCall.kw, lastCall.response)
        IN  IF details.outcome.kind = "return"
            THEN /\ lastCall.outcome.kind = "return"
                 /\ lastCall.outcome.ret = "value"
                 /\ lastCall.outcome.value =
                      (IF "input_schema" \in DOMAIN details.outcome.doc
                       THEN details.outcome.doc["input_schema"]
                       ELSE "{}")
            ELSE /\ lastCall.outcome = details.outcome
                 /\ lastCall.outcome.ret = "nothing"

C9_Witness ==
    /\ lastCall.op = "get_assistant_schema"
    /\ lastCall.kw["assistant_id"] = "other"
    /\ lastCall.response.text = SchemaText
    /\ lastCall.outcome.value = "{'type': 'object'}"

(***************************************************************************)
(* C10                                                                     *)
(***************************************************************************)
\* The method and the path of each operation.
Method(op) ==
    CASE op \in {"get_run_status", "get_assistant_details",
                 "get_assistant_schema", "get_thread_state", "get_item"} -> "GET"
      [] op = "put_item" -> "PUT"
      [] OTHER -> "POST"

Path(op, kw) ==
    CASE op = "run_stateful" -> "/threads/runs/wait"
      [] op = "run_stateless" -> "/runs/wait"
      [] op = "stream_run" -> "/runs/stream"
      [] op = "get_run_status" ->
            "/threads/" \o kw["thread_id"] \o "/runs/" \o kw["run_id"]
      [] op = "cancel_run" ->
            "/threads/" \o kw["thread_id"] \o "/runs/" \o kw["run_id"] \o "/cancel"
      [] op \in {"get_assistant_details", "get_assistant_schema"} ->
            "/assistants/" \o kw["assistant_id"] \o "/schemas"
      [] op \in {"get_thread_state", "update_thread_state"} ->
            "/threads/" \o kw["thread_id"] \o "/state"
      [] op \in {"put_item", "get_item"} -> "/store/items"
      [] op = "search_items" -> "/store/items/search"
      [] op = "create_assistant" -> "/assistants"

C10_RequestTarget ==
    Called => /\ Sent.method = Method(lastCall.op)
              /\ Sent.url = base_url \o Path(lastCall.op, lastCall.kw)

\* C10: every request goes with the operation's method to the base URL given
\* at construction followed by the operation's path, whatever calls came
\* before: no step changes the base URL or the session.
C10_TargetAndFrame ==
    /\ []C10_RequestTarget
    /\ [][base_url' = base_url /\ session' = session]_vars

C10_Witness ==
    /\ calls = 2
    /\ lastCall.op = "get_run_status"
    /\ base_url = "http://localhost:2024/"
    /\ Sent.url = "http://localhost:2024//threads/1234/runs/5678"
    /\ Sent.method = "GET"

====
